---------------------------- MODULE Spec2Model ----------------------------
(* A model of themekit's environment configuration store, src/env/conf.go: *)
(* the Conf type (Envs, osEnv, path), New, Load, Set, Get, validate, Save   *)
(* and searchConfigPath, together with the file system they act on.         *)
(* Env, Default, newEnv and Env.validate live in env.go, which is not part  *)
(* of the sources at hand; they are modelled from the specification.        *)
EXTENDS Integers, Sequences, FiniteSets, TLC

VARIABLES
    Envs,    \* Conf.Envs: map from environment name to *Env (NilEnv for nil)
    osEnv,   \* Conf.osEnv: the Env parsed from the process environment
    path,    \* Conf.path: the configuration path the store was created with
    disk,    \* the file system: clean path -> file state
    last     \* the last call made: its arguments and what it returned

vars == <<Envs, osEnv, path, disk, last>>

(***************************************************************************)
(* Bounds of the model.                                                    *)
(***************************************************************************)
\* longest list of caller overrides handed to Set or Get
MaxOverrides == 2
\* longest configuration path, in tokens, handed to searchConfigPath
MaxPathLen == 4

(***************************************************************************)
(* Env and the merge rule (env.go).                                        *)
(***************************************************************************)
Fields == {"Directory", "Timeout"}

\* the zero value of Env: every field unset
ZeroEnv == [Directory |-> "", Timeout |-> 0]

\* the package-level Default: the working directory and the default timeout
Default == [Directory |-> "pwd", Timeout |-> 30]

\* a nil *Env
NilEnv == [null |-> TRUE]

Directories == {"", "pwd", "src"}
Timeouts == {-1, 0, 30}
AllEnvs == [Directory : Directories, Timeout : Timeouts]

NoErr == [kind |-> "nil", msgs |-> <<>>]
ErrEnvDoesNotExist == [kind |-> "ErrEnvDoesNotExist", msgs |-> <<>>]
ErrEnvNotDefined == [kind |-> "ErrEnvNotDefined", msgs |-> <<>>]
ErrNoEnvironmentsDefined == [kind |-> "ErrNoEnvironmentsDefined", msgs |-> <<>>]
ErrInvalidEnvironmentName == [kind |-> "ErrInvalidEnvironmentName", msgs |-> <<>>]
ErrNotExist == [kind |-> "os.ErrNotExist", msgs |-> <<>>]
ErrIsDir == [kind |-> "EISDIR", msgs |-> <<>>]
ErrInvalidYaml == [kind |-> "Invalid yaml found while loading the config file", msgs |-> <<>>]
ErrInvalidJson == [kind |-> "Invalid json found while loading the config file", msgs |-> <<>>]

\* one override folded into the accumulated Env: a set (non-zero) field of
\* the override replaces the accumulated one, an unset field leaves it
mergeOne(acc, override) ==
    [f \in Fields |-> IF override[f] # ZeroEnv[f] THEN override[f] ELSE acc[f]]

RECURSIVE mergeAll(_, _)
mergeAll(acc, overrides) ==
    IF overrides = <<>> THEN acc
    ELSE mergeAll(mergeOne(acc, Head(overrides)), Tail(overrides))

\* fields still at their zero value are filled from Default
fillDefaults(env) ==
    [f \in Fields |-> IF env[f] = ZeroEnv[f] THEN Default[f] ELSE env[f]]

\* newEnv(name, initial, overrides...): (*Env, error)
newEnv(name, initial, overrides) ==
    IF name = ""
    THEN [env |-> NilEnv, err |-> ErrInvalidEnvironmentName]
    ELSE [env |-> fillDefaults(mergeAll(initial, overrides)), err |-> NoErr]

\* Env.validate: the field rules, on the defaulted fields
envValidate(env) ==
    LET e == fillDefaults(env)
    IN  IF e.Directory = "" THEN [kind |-> "invalid environment", msgs |-> <<"missing directory">>]
        ELSE IF e.Timeout < 0 THEN [kind |-> "invalid environment", msgs |-> <<"invalid timeout">>]
        ELSE NoErr

(***************************************************************************)
(* The store's map.                                                        *)
(***************************************************************************)
EmptyEnvs == [n \in {} |-> NilEnv]

\* c.Envs[name] = env
put(envs, name, env) ==
    [n \in DOMAIN envs \cup {name} |-> IF n = name THEN env ELSE envs[n]]

\* delete(c.Envs, name)
remove(envs, name) == [n \in DOMAIN envs \ {name} |-> envs[n]]

(***************************************************************************)
(* Conf.Set and Conf.Get.                                                  *)
(***************************************************************************)
\* a Set that appends the process environment after the caller's overrides
SetOsEnvLast(envs, os, name, initial, overrides) ==
    IF name = ""
    THEN [Envs |-> envs, env |-> NilEnv, err |-> ErrInvalidEnvironmentName]
    ELSE LET r == newEnv(name, initial, overrides \o <<os>>)
         IN  [Envs |-> put(envs, name, r.env), env |-> r.env, err |-> envValidate(r.env)]

\* a Set without the blank name check
SetNoNameCheck(envs, os, name, initial, overrides) ==
    LET r == newEnv(name, initial, <<os>> \o overrides)
        stored == put(envs, name, r.env)
    IN  IF r.err # NoErr
        THEN [Envs |-> stored, env |-> NilEnv, err |-> r.err]
        ELSE [Envs |-> stored, env |-> stored[name], err |-> envValidate(stored[name])]

\* Set(name, initial, overrides...): the map after the call, and (*Env, error)
SetOp(envs, os, name, initial, overrides) ==
    IF name = ""
    THEN [Envs |-> envs, env |-> NilEnv, err |-> ErrInvalidEnvironmentName]
    ELSE LET r == newEnv(name, initial, <<os>> \o overrides)
             stored == put(envs, name, r.env)
         IN  IF r.err # NoErr
             THEN [Envs |-> stored, env |-> NilEnv, err |-> r.err]
             ELSE [Envs |-> stored, env |-> stored[name], err |-> envValidate(stored[name])]

\* a Get that leaves the process environment out of the merge
GetNoOsEnv(envs, os, name, overrides) ==
    IF name \notin DOMAIN envs
    THEN [Envs |-> envs, env |-> NilEnv, err |-> ErrEnvDoesNotExist]
    ELSE IF envs[name] = NilEnv
    THEN [Envs |-> envs, env |-> NilEnv, err |-> ErrEnvNotDefined]
    ELSE LET r == newEnv(name, envs[name], overrides)
         IN  [Envs |-> envs, env |-> r.env, err |-> r.err]

\* a Get that stores the merged Env back under the name
GetPersists(envs, os, name, overrides) ==
    IF name \notin DOMAIN envs
    THEN [Envs |-> envs, env |-> NilEnv, err |-> ErrEnvDoesNotExist]
    ELSE IF envs[name] = NilEnv
    THEN [Envs |-> envs, env |-> NilEnv, err |-> ErrEnvNotDefined]
    ELSE LET r == newEnv(name, envs[name], <<os>> \o overrides)
         IN  [Envs |-> put(envs, name, r.env), env |-> r.env, err |-> r.err]

\* Get(name, overrides...): the map after the call, and (*Env, error)
GetOp(envs, os, name, overrides) ==
    IF name \notin DOMAIN envs
    THEN [Envs |-> envs, env |-> NilEnv, err |-> ErrEnvDoesNotExist]
    ELSE IF envs[name] = NilEnv
    THEN [Envs |-> envs, env |-> NilEnv, err |-> ErrEnvNotDefined]
    ELSE LET r == newEnv(name, envs[name], <<os>> \o overrides)
         IN  [Envs |-> envs, env |-> r.env, err |-> r.err]

(***************************************************************************)
(* Paths.  A path is a sequence of tokens, each standing for its own text: *)
(* "/" is the separator, "." a dot, and the others are dot-free and        *)
(* slash-free pieces of file names.  The functions of path/filepath are    *)
(* computed on the tokens as the library computes them on the characters.  *)
(***************************************************************************)
PathTokens == {"/", ".", "app", "yml", "yaml", "json"}

Max(S) == CHOOSE x \in S : \A y \in S : y <= x

\* index of the last separator of p, 0 when it has none
lastSlash(p) ==
    LET S == {i \in 1..Len(p) : p[i] = "/"} IN IF S = {} THEN 0 ELSE Max(S)

\* the elements of p between its separators
RECURSIVE splitPath(_)
splitPath(p) ==
    LET S == {i \in 1..Len(p) : p[i] = "/"}
    IN  IF S = {} THEN <<p>>
        ELSE LET i == CHOOSE x \in S : \A y \in S : x <= y
             IN  <<SubSeq(p, 1, i - 1)>> \o splitPath(SubSeq(p, i + 1, Len(p)))

\* filepath.Clean's pass over the elements: "" and "." are dropped, ".."
\* removes the element before it (none at the root, kept at the front)
RECURSIVE cleanElems(_, _, _)
cleanElems(elems, out, rooted) ==
    IF elems = <<>> THEN out
    ELSE LET e == Head(elems)
             rest == Tail(elems)
         IN  IF e = <<>> \/ e = <<".">> THEN cleanElems(rest, out, rooted)
             ELSE IF e = <<".", ".">>
             THEN IF out # <<>> /\ out[Len(out)] # <<".", ".">>
                  THEN cleanElems(rest, SubSeq(out, 1, Len(out) - 1), rooted)
                  ELSE IF rooted THEN cleanElems(rest, out, rooted)
                  ELSE cleanElems(rest, Append(out, e), rooted)
             ELSE cleanElems(rest, Append(out, e), rooted)

RECURSIVE joinElems(_)
joinElems(elems) ==
    IF elems = <<>> THEN <<>>
    ELSE IF Len(elems) = 1 THEN elems[1]
    ELSE elems[1] \o <<"/">> \o joinElems(Tail(elems))

\* filepath.Clean
Clean(p) ==
    IF p = <<>> THEN <<".">>
    ELSE LET rooted == p[1] = "/"
             out == joinElems(cleanElems(splitPath(p), <<>>, rooted))
         IN  IF rooted THEN <<"/">> \o out
             ELSE IF out = <<>> THEN <<".">> ELSE out

\* filepath.Dir
Dir(p) == Clean(SubSeq(p, 1, lastSlash(p)))

\* p without its trailing separators
RECURSIVE stripSlashes(_)
stripSlashes(p) ==
    IF p # <<>> /\ p[Len(p)] = "/" THEN stripSlashes(SubSeq(p, 1, Len(p) - 1)) ELSE p

\* filepath.Base
Base(p) ==
    IF p = <<>> THEN <<".">>
    ELSE LET q == stripSlashes(p)
             r == SubSeq(q, lastSlash(q) + 1, Len(q))
         IN  IF r = <<>> THEN <<"/">> ELSE r

\* filepath.Ext: from the last dot of the last element on
Ext(p) ==
    LET S == {i \in (lastSlash(p) + 1)..Len(p) : p[i] = "."}
    IN  IF S = {} THEN <<>> ELSE SubSeq(p, Max(S), Len(p))

\* filepath.Join(dir, file), for the non-empty dir and file it is called with
Join(dir, file) == Clean(dir \o <<"/">> \o file)

(***************************************************************************)
(* The file system.                                                        *)
(***************************************************************************)
Absent == [kind |-> "absent"]
IsDirectory == [kind |-> "dir"]
File(bytes) == [kind |-> "file", bytes |-> bytes]

\* os.Stat(p) returns no error
statOk(d, p) == p \in DOMAIN d /\ d[p].kind # "absent"

\* the file system with file p holding bytes
writeFile(d, p, bytes) ==
    [q \in DOMAIN d \cup {p} |-> IF q = p THEN File(bytes) ELSE d[q]]

(***************************************************************************)
(* searchConfigPath.                                                       *)
(***************************************************************************)
supportedExts == <<"yml", "yaml", "json">>

\* a search that takes the first candidate that exists, whatever the
\* extension of the path asked for
RECURSIVE searchAnyExt(_, _, _)
searchAnyExt(d, configPath, i) ==
    IF i > Len(supportedExts)
    THEN [path |-> <<>>, ext |-> "", err |-> ErrNotExist]
    ELSE LET dir == Dir(configPath)
             filename == Base(configPath)
             name == SubSeq(filename, 1, Len(filename) - Len(Ext(filename)))
             ext == supportedExts[i]
             foundPath == Join(dir, name \o <<".", ext>>)
         IN  IF statOk(d, foundPath)
             THEN [path |-> foundPath, ext |-> ext, err |-> NoErr]
             ELSE searchAnyExt(d, configPath, i + 1)

\* the loop of searchConfigPath from the i-th supported extension on
RECURSIVE searchFrom(_, _, _)
searchFrom(d, configPath, i) ==
    IF i > Len(supportedExts)
    THEN [path |-> <<>>, ext |-> "", err |-> ErrNotExist]
    ELSE LET dir == Dir(configPath)
             filename == Base(configPath)
             name == SubSeq(filename, 1, Len(filename) - Len(Ext(filename)))
             ext == supportedExts[i]
             foundPath == Join(dir, name \o <<".", ext>>)
         IN  IF statOk(d, foundPath) /\ <<".", ext>> = Ext(filename)
             THEN [path |-> foundPath, ext |-> ext, err |-> NoErr]
             ELSE searchFrom(d, configPath, i + 1)

\* searchConfigPath(configPath): (path, ext, error)
searchConfigPath(d, configPath) == searchFrom(d, configPath, 1)

(***************************************************************************)
(* The codecs.  The bytes of a file are its format and the document it     *)
(* spells: a mapping from name to null or to the mapping of the keys       *)
(* written.  Env's fields are tagged omitempty: a zero field is not        *)
(* written, and a key that is not read leaves its field zero.              *)
(***************************************************************************)
YamlKeys == {"directory", "timeout"}
fieldOf(k) == IF k = "directory" THEN "Directory" ELSE "Timeout"

EmptyBytes == [fmt |-> "empty", doc |-> EmptyEnvs]
JunkBytes == [fmt |-> "junk", doc |-> EmptyEnvs]

encodeEnv(env) ==
    [k \in {x \in YamlKeys : env[fieldOf(x)] # ZeroEnv[fieldOf(x)]} |-> env[fieldOf(k)]]

decodeEnv(m) ==
    [Directory |-> IF "directory" \in DOMAIN m THEN m["directory"] ELSE "",
     Timeout |-> IF "timeout" \in DOMAIN m THEN m["timeout"] ELSE 0]

encodeDoc(envs) ==
    [n \in DOMAIN envs |-> IF envs[n] = NilEnv THEN NilEnv ELSE encodeEnv(envs[n])]

decodeDoc(doc) ==
    [n \in DOMAIN doc |-> IF doc[n] = NilEnv THEN NilEnv ELSE decodeEnv(doc[n])]

\* yaml.Marshal(c.Envs): a block mapping
yamlMarshal(envs) == [fmt |-> "yaml", doc |-> encodeDoc(envs)]

\* yaml.Unmarshal(contents, &conf.Envs): a JSON document is a YAML flow
\* mapping, and an empty document leaves the map as it is
yamlUnmarshal(bytes) ==
    IF bytes.fmt \in {"yaml", "json"} THEN [Envs |-> decodeDoc(bytes.doc), err |-> NoErr]
    ELSE IF bytes.fmt = "empty" THEN [Envs |-> EmptyEnvs, err |-> NoErr]
    ELSE [Envs |-> EmptyEnvs, err |-> ErrInvalidYaml]

\* json.Unmarshal(contents, &conf.Envs): a YAML block mapping and an empty
\* input are no JSON
jsonUnmarshal(bytes) ==
    IF bytes.fmt = "json" THEN [Envs |-> decodeDoc(bytes.doc), err |-> NoErr]
    ELSE [Envs |-> EmptyEnvs, err |-> ErrInvalidJson]

(***************************************************************************)
(* Conf.validate.                                                          *)
(***************************************************************************)
\* the orders in which a range over a map with keys among S may visit them
Orders(S) ==
    {o \in [1..Cardinality(S) -> S] : \A i, j \in 1..Cardinality(S) : o[i] = o[j] => i = j}

\* a loop that stops at the first Env that fails
RECURSIVE firstError(_, _)
firstError(envs, order) ==
    IF order = <<>> THEN <<>>
    ELSE LET n == Head(order)
         IN  IF n \notin DOMAIN envs \/ envs[n] = NilEnv THEN firstError(envs, Tail(order))
             ELSE IF envValidate(envs[n]) # NoErr THEN envValidate(envs[n]).msgs
             ELSE firstError(envs, Tail(order))

\* the loop of validate: the messages of the Envs that fail, in the order
\* the range visits them
RECURSIVE validateErrors(_, _)
validateErrors(envs, order) ==
    IF order = <<>> THEN <<>>
    ELSE LET n == Head(order)
             rest == validateErrors(envs, Tail(order))
         IN  IF n \notin DOMAIN envs \/ envs[n] = NilEnv THEN rest
             ELSE IF envValidate(envs[n]) # NoErr THEN envValidate(envs[n]).msgs \o rest
             ELSE rest

\* c.validate(), the range visiting the keys in the given order
validate(envs, order) ==
    LET errors == validateErrors(envs, order)
    IN  IF Len(errors) > 0 THEN [kind |-> "invalid config", msgs |-> errors] ELSE NoErr

(***************************************************************************)
(* Load.                                                                   *)
(***************************************************************************)
\* ioutil.ReadFile(p) of a path that os.Stat found
readFile(d, p) ==
    IF ~statOk(d, p) THEN [bytes |-> EmptyBytes, err |-> ErrNotExist]
    ELSE IF d[p].kind = "dir" THEN [bytes |-> EmptyBytes, err |-> ErrIsDir]
    ELSE [bytes |-> d[p].bytes, err |-> NoErr]

\* Load(configPath): the Envs of the Conf returned, the error, and how far
\* the call went
LoadOp(d, configPath, order) ==
    LET found == searchConfigPath(d, configPath)
        read == readFile(d, found.path)
        decoded == IF found.ext = "json" THEN jsonUnmarshal(read.bytes)
                   ELSE yamlUnmarshal(read.bytes)
    IN  IF found.err # NoErr
        THEN [Envs |-> EmptyEnvs, err |-> found.err, stage |-> "resolve", readErr |-> NoErr]
        ELSE IF read.err # NoErr
        THEN [Envs |-> EmptyEnvs, err |-> validate(EmptyEnvs, order),
              stage |-> "validate", readErr |-> read.err]
        ELSE IF decoded.err # NoErr
        THEN [Envs |-> decoded.Envs, err |-> decoded.err, stage |-> "decode", readErr |-> NoErr]
        ELSE [Envs |-> decoded.Envs, err |-> validate(decoded.Envs, order),
              stage |-> "validate", readErr |-> NoErr]

(***************************************************************************)
(* Save.                                                                   *)
(***************************************************************************)
\* a pass that clears the directory when it is NOT the default
clearNonDefaults(env) ==
    [Directory |-> IF env.Directory # Default.Directory THEN "" ELSE env.Directory,
     Timeout |-> IF env.Timeout = Default.Timeout THEN 0 ELSE env.Timeout]

\* the fields equal to Default's are reset to zero
clearDefaults(env) ==
    [Directory |-> IF env.Directory = Default.Directory THEN "" ELSE env.Directory,
     Timeout |-> IF env.Timeout = Default.Timeout THEN 0 ELSE env.Timeout]

\* the loop of save: nil entries deleted, defaults cleared in the others
cleared(envs) ==
    [n \in {x \in DOMAIN envs : envs[x] # NilEnv} |-> clearDefaults(envs[n])]

\* c.file(): os.OpenFile(c.path, O_WRONLY|O_CREATE|O_TRUNC): the file is
\* created or cut to nothing; a directory cannot be opened for writing
fileOp(d, p) ==
    IF Clean(p) \in DOMAIN d /\ d[Clean(p)].kind = "dir"
    THEN [disk |-> d, err |-> ErrIsDir]
    ELSE [disk |-> writeFile(d, Clean(p), EmptyBytes), err |-> NoErr]

\* c.save(w): the map and the file after it, and the error
saveOp(envs, d, p) ==
    LET kept == cleared(envs)
    IN  IF DOMAIN kept = {}
        THEN [Envs |-> kept, disk |-> d, err |-> ErrNoEnvironmentsDefined]
        ELSE [Envs |-> kept, disk |-> writeFile(d, Clean(p), yamlMarshal(kept)), err |-> NoErr]

\* c.Save()
SaveOp(envs, d, p) ==
    LET f == fileOp(d, p)
    IN  IF f.err # NoErr THEN [Envs |-> envs, disk |-> d, err |-> f.err]
        ELSE saveOp(envs, f.disk, p)

(***************************************************************************)
(* The state machine.                                                      *)
(***************************************************************************)
\* the record of a call, before its fields are filled in
NoCall ==
    [op |-> "New", name |-> "", initial |-> ZeroEnv, overrides |-> <<>>,
     env |-> NilEnv, err |-> NoErr, stage |-> "", readErr |-> NoErr,
     roundTrip |-> FALSE, before |-> EmptyEnvs, found |-> <<>>, ext |-> ""]

\* what Get(name) returns, for every name with a non-nil entry
effective(envs, os) ==
    [n \in {x \in DOMAIN envs : envs[x] # NilEnv} |->
        [env |-> GetOp(envs, os, n, <<>>).env, err |-> GetOp(envs, os, n, <<>>).err]]

\* c.Set(name, initial, overrides...)
Set(name, initial, overrides) ==
    \E r \in {SetOp(Envs, osEnv, name, initial, overrides)} :
        /\ Envs' = r.Envs
        /\ last' = [NoCall EXCEPT !.op = "Set", !.name = name, !.initial = initial,
                                  !.overrides = overrides, !.env = r.env, !.err = r.err]
        /\ UNCHANGED <<osEnv, path, disk>>

\* c.Get(name, overrides...)
Get(name, overrides) ==
    \E r \in {GetOp(Envs, osEnv, name, overrides)} :
        /\ Envs' = r.Envs
        /\ last' = [NoCall EXCEPT !.op = "Get", !.name = name, !.overrides = overrides,
                                  !.initial = IF name \in DOMAIN Envs /\ Envs[name] # NilEnv
                                              THEN Envs[name] ELSE ZeroEnv,
                                  !.env = r.env, !.err = r.err]
        /\ UNCHANGED <<osEnv, path, disk>>

\* c.Save()
Save ==
    \E r \in {SaveOp(Envs, disk, path)} :
        /\ Envs' = r.Envs
        /\ disk' = r.disk
        /\ last' = [NoCall EXCEPT !.op = "Save", !.err = r.err,
                                  !.before = effective(Envs, osEnv)]
        /\ UNCHANGED <<osEnv, path>>

\* Load(path): the store is replaced by the one read from the store's path;
\* the process environment is the same, so is osEnv
Load(order) ==
    \E r \in {LoadOp(disk, path, order)}, afterSave \in {last.op = "Save" /\ last.err = NoErr} :
        /\ Envs' = r.Envs
        /\ last' = [NoCall EXCEPT !.op = "Load", !.err = r.err, !.stage = r.stage,
                                  !.readErr = r.readErr, !.roundTrip = afterSave,
                                  !.before = IF afterSave THEN last.before ELSE EmptyEnvs]
        /\ UNCHANGED <<osEnv, path, disk>>

\* searchConfigPath(path)
Resolve ==
    \E r \in {searchConfigPath(disk, path)} :
        /\ last.op = "New"
        /\ last' = [NoCall EXCEPT !.op = "searchConfigPath", !.found = r.path,
                                  !.ext = r.ext, !.err = r.err]
        /\ UNCHANGED <<Envs, osEnv, path, disk>>

\* the lists of at most n overrides drawn from S
ListsUpTo(S, n) == UNION {[1..k -> S] : k \in 0..n}

(***************************************************************************)
(* Spec: a store on a configuration file, with every operation.            *)
(***************************************************************************)
Names == {"", "a", "b"}
StorePaths == {<<"config", ".", "yml">>, <<"config", ".", "json">>, <<"config", ".", "txt">>}
OsEnvs == {ZeroEnv, [Directory |-> "src", Timeout |-> -1]}
Initials == {ZeroEnv, [Directory |-> "src", Timeout |-> -1]}
Overrides == {<<>>, <<[Directory |-> "pwd", Timeout |-> 0]>>}

\* a configuration file as a user may have written it: an invalid
\* environment under the empty name, a declared one, another invalid one
SeedDoc ==
    [n \in Names |-> IF n = "" THEN encodeEnv([Directory |-> "", Timeout |-> -1])
                     ELSE IF n = "a" THEN NilEnv
                     ELSE encodeEnv([Directory |-> "src", Timeout |-> -1])]

SeedFiles ==
    {Absent, IsDirectory, File(JunkBytes),
     File([fmt |-> "yaml", doc |-> SeedDoc]), File([fmt |-> "json", doc |-> SeedDoc])}

NameOrders == Orders(Names)

\* New(path), in a process environment and on a file system
Init ==
    /\ Envs = EmptyEnvs
    /\ osEnv \in OsEnvs
    /\ path \in StorePaths
    /\ \E f \in SeedFiles : disk = [q \in {Clean(path)} |-> f]
    /\ last = NoCall

Next ==
    \/ \E name \in Names, initial \in Initials, overrides \in Overrides :
          Set(name, initial, overrides)
    \/ \E name \in Names, overrides \in Overrides : Get(name, overrides)
    \/ Save
    \/ \E order \in NameOrders : Load(order)

Spec == Init /\ [][Next]_vars

(***************************************************************************)
(* SpecMerge: Set and Get on a blank store, with the Envs that set one     *)
(* field, both or none as initial, process environment and overrides.      *)
(***************************************************************************)
MergeNames == {"a"}
MergeEnvs ==
    {ZeroEnv, [Directory |-> "src", Timeout |-> 0], [Directory |-> "", Timeout |-> -1],
     [Directory |-> "pwd", Timeout |-> 30]}
MergeLists == ListsUpTo(MergeEnvs, MaxOverrides)

InitMerge ==
    /\ Envs = EmptyEnvs
    /\ osEnv \in MergeEnvs
    /\ path = <<"config", ".", "yml">>
    /\ disk = [q \in {Clean(path)} |-> Absent]
    /\ last = NoCall

NextMerge ==
    \/ \E name \in MergeNames, initial \in MergeEnvs, overrides \in MergeLists :
          Set(name, initial, overrides)
    \/ \E name \in MergeNames, overrides \in MergeLists :
          Get(name, overrides)

SpecMerge == InitMerge /\ [][NextMerge]_vars

(***************************************************************************)
(* SpecPath: searchConfigPath on every path and every set of files.        *)
(***************************************************************************)
AllPaths == ListsUpTo(PathTokens, MaxPathLen)

\* the files that may be there
SomeFiles ==
    {<<"app", ".", "yml">>, <<"app", ".", "yaml">>, <<"app", ".", "json">>,
     <<"app", "/", "app", ".", "json">>}

InitPath ==
    /\ Envs = EmptyEnvs
    /\ osEnv = ZeroEnv
    /\ path \in AllPaths
    /\ \E there \in SUBSET SomeFiles :
          disk = [q \in SomeFiles |-> IF q \in there THEN File(EmptyBytes) ELSE Absent]
    /\ last = NoCall

NextPath == Resolve

SpecPath == InitPath /\ [][NextPath]_vars

(***************************************************************************)
(* The properties.                                                         *)
(***************************************************************************)
\* the value field f takes by precedence: the last Env of the chain that
\* sets it, else the base's, else Default's
precedence(base, chain, f) ==
    LET S == {i \in 1..Len(chain) : chain[i][f] # ZeroEnv[f]}
    IN  IF S # {} THEN chain[Max(S)][f]
        ELSE IF base[f] # ZeroEnv[f] THEN base[f]
        ELSE Default[f]

\* what a call returned
returned(r) == [env |-> r.env, err |-> r.err]

\* C1: Merge precedence.  The Env that Set or Get returns has, in every
\* field, the value of the last Env that sets the field in the chain made
\* of osEnv followed by the caller's overrides, else the value of the base
\* (Set's initial, Get's stored Env) if it sets the field, else Default's;
\* and Set under a non-empty name does return an Env.
C1_MergePrecedence ==
    /\ (last.op = "Set" /\ last.name # "") => last.env # NilEnv
    /\ (last.op \in {"Set", "Get"} /\ last.env # NilEnv) =>
          \A f \in Fields :
             last.env[f] = precedence(last.initial, <<osEnv>> \o last.overrides, f)

\* C1, its case: a Set whose first override sets the directory, to another
\* value than osEnv does, and whose second override leaves it unset, while
\* both overrides set the timeout, to different values
C1_Witness ==
    /\ last.op = "Set" /\ last.env # NilEnv /\ Len(last.overrides) = 2
    /\ osEnv.Directory # "" /\ last.overrides[1].Directory \notin {"", osEnv.Directory}
    /\ last.overrides[2].Directory = ""
    /\ last.env.Directory = last.overrides[1].Directory
    /\ last.overrides[1].Timeout # 0
    /\ last.overrides[2].Timeout \notin {0, last.overrides[1].Timeout}
    /\ last.env.Timeout = last.overrides[2].Timeout

\* C9 as stated: right after a Set that returns an Env, Get of the same name
\* with no overrides returns an Env with the same field values.
C9_SetThenGetSame ==
    (last.op = "Set" /\ last.env # NilEnv) =>
        returned(GetOp(Envs, osEnv, last.name, <<>>)) = [env |-> last.env, err |-> NoErr]

\* C9, amended: right after a Set that returns an Env, Get of the same name
\* with no overrides succeeds, and each field of its Env is osEnv's when
\* osEnv sets the field, and the one Set returned otherwise.
C9_SetThenGetOsEnvWins ==
    (last.op = "Set" /\ last.env # NilEnv) =>
        LET g == GetOp(Envs, osEnv, last.name, <<>>)
        IN  /\ g.err = NoErr
            /\ \A f \in Fields :
                  g.env[f] = IF osEnv[f] # ZeroEnv[f] THEN osEnv[f] ELSE last.env[f]

\* C9, its case: a Set whose override beat osEnv on the directory, so that
\* the Get that follows returns another directory than the Set did
C9_Witness ==
    /\ last.op = "Set" /\ last.env # NilEnv
    /\ osEnv.Directory # "" /\ last.env.Directory # osEnv.Directory
    /\ GetOp(Envs, osEnv, last.name, <<>>).env.Directory = osEnv.Directory

\* C7: Blank name rejection.  A Set under the empty name fails with
\* ErrInvalidEnvironmentName, returns no Env and leaves Envs as it was.
C7_BlankNameRejected ==
    [][(last'.op = "Set" /\ last'.name = "") =>
          /\ last'.err = ErrInvalidEnvironmentName
          /\ last'.env = NilEnv
          /\ Envs' = Envs]_vars

\* C7, its case: a Set under the empty name was refused on a store that
\* holds an Env under the empty name and one under another
C7_Witness ==
    /\ last.op = "Set" /\ last.name = "" /\ last.err = ErrInvalidEnvironmentName
    /\ "" \in DOMAIN Envs /\ Envs[""] # NilEnv
    /\ "b" \in DOMAIN Envs

\* the outcome of a Get for a name that is no key, or a key of a nil entry
getFailsAsStated ==
    /\ last'.name \notin DOMAIN Envs => (last'.err = ErrEnvDoesNotExist /\ last'.env = NilEnv)
    /\ (last'.name \in DOMAIN Envs /\ Envs[last'.name] = NilEnv) =>
          (last'.err = ErrEnvNotDefined /\ last'.env = NilEnv)

\* the outcome of a Get for a key of a non-nil entry: the Env merged from
\* the stored one, osEnv, the overrides and Default
getMerges ==
    /\ last'.err = NoErr
    /\ last'.env # NilEnv
    /\ \A f \in Fields :
          last'.env[f] = precedence(Envs[last'.name], <<osEnv>> \o last'.overrides, f)

\* C3 as stated: Get fails with ErrEnvDoesNotExist for a name that is no
\* key, with ErrEnvNotDefined for a key of a nil entry, and otherwise
\* returns a freshly merged Env; Envs is unchanged in all three cases.
C3_GetOutcomes ==
    [][last'.op = "Get" =>
          /\ Envs' = Envs
          /\ getFailsAsStated
          /\ (last'.name \in DOMAIN Envs /\ Envs[last'.name] # NilEnv) => getMerges]_vars

\* C3, amended: as stated, the third case for a non-empty name only.
C3_GetOutcomesNamed ==
    [][last'.op = "Get" =>
          /\ Envs' = Envs
          /\ getFailsAsStated
          /\ (last'.name \in DOMAIN Envs /\ Envs[last'.name] # NilEnv /\ last'.name # "") =>
                getMerges]_vars

\* C3, its case: a Get returned a merged Env that differs from the stored
\* one, which is still stored, on a store that also has a nil entry
C3_Witness ==
    /\ last.op = "Get" /\ last.name = "b" /\ last.err = NoErr
    /\ last.env # NilEnv /\ Envs["b"] # last.env /\ Envs["b"] # NilEnv
    /\ "a" \in DOMAIN Envs /\ Envs["a"] = NilEnv

\* the override lists the properties of Save range over
SomeLists == ListsUpTo(MergeEnvs, MaxOverrides)

\* C10: Save is transparent to Get.  Over a Save, failed or not, every name
\* with a non-nil entry keeps a non-nil entry, and Get of that name returns
\* the same thing after the Save as before it, with any list of overrides.
C10_SaveTransparentToGet ==
    [][last'.op = "Save" =>
          \A n \in DOMAIN Envs :
             Envs[n] # NilEnv =>
                /\ n \in DOMAIN Envs' /\ Envs'[n] # NilEnv
                /\ \A overrides \in SomeLists :
                      returned(GetOp(Envs', osEnv, n, overrides))
                         = returned(GetOp(Envs, osEnv, n, overrides))]_vars

\* C10, its case: a Save that went through and cleared a default directory
\* in the store's own Env, which Get returned before the Save
C10_Witness ==
    /\ last.op = "Save" /\ last.err = NoErr
    /\ \E n \in DOMAIN Envs :
          /\ Envs[n] # NilEnv /\ Envs[n].Directory = ""
          /\ n \in DOMAIN last.before
          /\ last.before[n].err = NoErr
          /\ last.before[n].env.Directory = Default.Directory

\* the non-nil entries of the store that fail Env.validate
failing == {n \in DOMAIN Envs : Envs[n] # NilEnv /\ envValidate(Envs[n]) # NoErr}

\* how many times message m stands in the list msgs
count(msgs, m) == Cardinality({i \in 1..Len(msgs) : msgs[i] = m})

\* C8: Validation aggregation.  The error of the store's validate (as Load
\* returns it) is nil exactly when no non-nil Env fails Env.validate, and
\* otherwise is one error that holds the message of every Env that fails,
\* each as many times as there are Envs failing with it.
C8_ValidationAggregates ==
    (last.op = "Load" /\ last.stage = "validate") =>
        /\ last.err = NoErr <=> failing = {}
        /\ failing # {} =>
              /\ last.err.kind = "invalid config"
              /\ Len(last.err.msgs) = Cardinality(failing)
              /\ \A n \in failing :
                    LET m == envValidate(Envs[n]).msgs[1]
                    IN  count(last.err.msgs, m)
                           = Cardinality({x \in failing : envValidate(Envs[x]).msgs[1] = m})

\* C8, its case: a Load validated a store with two Envs that fail and a nil
\* entry, and returned both messages
C8_Witness ==
    /\ last.op = "Load" /\ last.stage = "validate"
    /\ Cardinality(failing) = 2 /\ Len(last.err.msgs) = 2
    /\ \E n \in DOMAIN Envs : Envs[n] = NilEnv

\* C5: Extension strictness.  searchConfigPath succeeds exactly when the
\* extension of the path asked for is .yml, .yaml or .json and the file
\* dir/basename with that extension exists; it then returns that file and
\* that extension, and in every other case fails with NotExist.
C5_ExtensionStrict ==
    last.op = "searchConfigPath" =>
        LET e == Ext(Base(path))
            supported == Len(e) = 2 /\ e[1] = "." /\ e[2] \in {"yml", "yaml", "json"}
            own == Join(Dir(path), Base(path))
        IN  IF supported /\ statOk(disk, own)
            THEN last.err = NoErr /\ last.found = own /\ last.ext = e[2]
            ELSE last.err = ErrNotExist /\ last.found = <<>> /\ last.ext = ""

\* C5, its case: app.json resolved to itself with app.yml and app.yaml
\* there too
C5_Witness ==
    /\ last.op = "searchConfigPath" /\ last.err = NoErr
    /\ Base(path) = <<"app", ".", "json">>
    /\ last.found = <<"app", ".", "json">> /\ last.ext = "json"
    /\ statOk(disk, <<"app", ".", "yml">>) /\ statOk(disk, <<"app", ".", "yaml">>)

\* C2 as stated: after a Save that went through and a Load on the same
\* path, Get with no overrides returns, for every name whose entry was
\* non-nil before the Save, what it returned before the Save, whatever the
\* extension of the path.
C2_RoundTrip ==
    (last.op = "Load" /\ last.roundTrip) =>
        \A n \in DOMAIN last.before :
           returned(GetOp(Envs, osEnv, n, <<>>)) = last.before[n]

\* C4 as stated: a Save that fails with ErrNoEnvironmentsDefined leaves the
\* file at the store's path as it was, in content and in existence.
C4_EmptySaveWritesNothing ==
    [][(last'.op = "Save" /\ last'.err = ErrNoEnvironmentsDefined) => disk' = disk]_vars

\* C6 as stated: when reading the resolved file fails for another reason
\* than the file not existing, Load returns that read error.
C6_ReadFailureReturned ==
    (last.op = "Load" /\ last.readErr \notin {NoErr, ErrNotExist}) =>
        last.err = last.readErr

=============================================================================
